---- MODULE Spec2Model ----
(***************************************************************************)
(* A model of src/functions.py: the Polynomial node (construction,         *)
(* evaluation, differentiation, addition), the chain rule of Compose, and  *)
(* the Newton iterations newton_root / newton_extremum.                    *)
(*                                                                         *)
(* Numbers are exact rationals [n, d] (d > 0, lowest terms).  The Newton   *)
(* model follows a run only while every value is a dyadic rational with a  *)
(* small numerator, where binary64 arithmetic is exact; a run that leaves  *)
(* that range stops in the position "inexact".                             *)
(***************************************************************************)
EXTENDS Integers, Sequences, FiniteSets, TLC

VARIABLES heap, origin, last, ev, calls, tree

vars == <<heap, origin, last, ev, calls, tree>>

(* ------------------------------ bounds -------------------------------- *)
\* longest coefficient sequence given to a constructor
MaxLen == 3
\* number of Polynomial objects the heap may hold
MaxObjs == 4
\* longest array given to the vectorized evaluate
MaxVec == 2
\* Newton steps followed per call
MaxIter == 3
\* largest exponent e of a dyadic denominator 2^e kept exact
MaxExp == 4

\* coefficient values given to the constructors
CoeffVals == {0, 1}
\* the numbers given to evaluate
XVals == {[n |-> -2, d |-> 1], [n |-> 0, d |-> 1]}
DTypes == {"int64", "float64"}

(* ------------------------- exact rational numbers --------------------- *)
RECURSIVE GCD(_, _)
GCD(a, b) == IF b = 0 THEN a ELSE GCD(b, a % b)

Abs(i) == IF i < 0 THEN -i ELSE i

Rat(n, d) ==
    LET s == IF d < 0 THEN -1 ELSE 1
        g == GCD(Abs(n), Abs(d))
    IN  [n |-> (s * n) \div g, d |-> (s * d) \div g]

Int2Rat(i) == [n |-> i, d |-> 1]

\* sums, products and quotients, with common factors taken out before the
\* integer products are formed
RatAdd(a, b) ==
    LET g == GCD(a.d, b.d)
    IN  Rat(a.n * (b.d \div g) + b.n * (a.d \div g), (a.d \div g) * b.d)

RatNeg(a) == [n |-> -(a.n), d |-> a.d]
RatSub(a, b) == RatAdd(a, RatNeg(b))

RatMul(a, b) ==
    LET g1 == GCD(Abs(a.n), b.d)
        g2 == GCD(Abs(b.n), a.d)
    IN  Rat((a.n \div g1) * (b.n \div g2), (a.d \div g2) * (b.d \div g1))

\* a / b for b # 0
RatDiv(a, b) ==
    RatMul(a, IF b.n < 0 THEN [n |-> -(b.d), d |-> -(b.n)] ELSE [n |-> b.d, d |-> b.n])

RatAbs(a) == [n |-> Abs(a.n), d |-> a.d]

\* x**k by k multiplications; x**0 = 1 also for x = 0
RECURSIVE RatPow(_, _)
RatPow(x, k) == IF k = 0 THEN Int2Rat(1) ELSE RatMul(x, RatPow(x, k - 1))

\* n1/d1 > n2/d2 for non-negative operands, by integer parts and then the
\* reciprocals of the fractional parts (no products, so no overflow)
RECURSIVE FracGT(_, _, _, _)
FracGT(n1, d1, n2, d2) ==
    LET q1 == n1 \div d1
        q2 == n2 \div d2
        r1 == n1 % d1
        r2 == n2 % d2
    IN  IF q1 # q2 THEN q1 > q2
        ELSE IF r1 = 0 THEN FALSE
        ELSE IF r2 = 0 THEN TRUE
        ELSE FracGT(d2, r2, d1, r1)

RatGT(a, b) ==
    IF a.n < 0 /\ b.n >= 0 THEN FALSE
    ELSE IF a.n >= 0 /\ b.n < 0 THEN TRUE
    ELSE IF a.n >= 0 THEN FracGT(a.n, a.d, b.n, b.d)
    ELSE FracGT(-b.n, b.d, -a.n, a.d)

RatLT(a, b) == RatGT(b, a)

(* ------------------------------ ndarrays ------------------------------ *)
\* An ndarray is [dtype, v]: its element type and its elements.
\* np.array(list(args)): float64 as soon as one argument is a float.
NpArray(dt, v) == [dtype |-> dt, v |-> v]

RECURSIVE SeqsUpTo(_, _)
SeqsUpTo(S, k) ==
    IF k = 0 THEN {<<>>}
    ELSE LET T == SeqsUpTo(S, k - 1)
         IN  T \cup {Append(t, s) : t \in {u \in T : Len(u) = k - 1}, s \in S}

\* the argument lists of Polynomial(c_n, ..., c_0): at least one coefficient
CoeffArrays ==
    {NpArray(dt, v) : dt \in DTypes, v \in SeqsUpTo(CoeffVals, MaxLen) \ {<<>>}}

\* target[-len(src):] += src : numpy refuses to store a float64 sum into an
\* int64 array (casting rule 'same_kind') before it changes anything
CanCastInPlace(target, src) == ~(target.dtype = "int64" /\ src.dtype = "float64")

InplaceAddLow(target, src) ==
    LET off == Len(target.v) - Len(src.v)
    IN  [target EXCEPT !.v =
            [i \in 1..Len(target.v) |->
                IF i > off THEN target.v[i] + src.v[i - off] ELSE target.v[i]]]

(* ----------------------------- Polynomial ----------------------------- *)
\* Polynomial.__init__: self.coeff = np.array(list(args)), a fresh array
PolynomialInit(coeff) == NpArray(coeff.dtype, coeff.v)

PolynomialDegree(coeff) == Len(coeff.v) - 1

\* the weights without reversed(): 1, 2, ..., degree
DerivativeWeightsAscending(deg) == [i \in 1..deg |-> i]

\* [n+1 for n in reversed(range(degree))] = degree, degree-1, ..., 1
DerivativeWeights(deg) == [i \in 1..deg |-> deg - i + 1]

\* Polynomial.derivative: the coefficient array of the returned Polynomial
PolynomialDerivative(coeff) ==
    IF Len(coeff.v) = 1 THEN PolynomialInit(NpArray("int64", <<0>>))
    ELSE LET deg == PolynomialDegree(coeff)
             w == DerivativeWeights(deg)
         IN  PolynomialInit(NpArray(coeff.dtype, [i \in 1..deg |-> coeff.v[i] * w[i]]))

\* scalar branch of Polynomial.evaluate:
\* for k, c in enumerate(reversed(coeff)): ret = ret + c * x**k
RECURSIVE EvaluateLoop(_, _, _, _)
EvaluateLoop(v, x, k, ret) ==
    IF k = Len(v) THEN ret
    ELSE EvaluateLoop(v, x, k + 1,
                      RatAdd(ret, RatMul(Int2Rat(v[Len(v) - k]), RatPow(x, k))))

EvaluateNumber(coeff, x) == EvaluateLoop(coeff.v, x, 0, Int2Rat(0))

\* the matrix of np.vander(x, N, increasing=True): powers in ascending order
VanderIncreasing(xs, N) == [i \in 1..Len(xs) |-> [j \in 1..N |-> RatPow(xs[i], j - 1)]]

\* np.vander(x, N): row i is x[i]^(N-1), ..., x[i]^1, x[i]^0
Vander(xs, N) == [i \in 1..Len(xs) |-> [j \in 1..N |-> RatPow(xs[i], N - j)]]

\* row . coeff
RECURSIVE Dot(_, _, _)
Dot(row, v, j) ==
    IF j > Len(v) THEN Int2Rat(0)
    ELSE RatAdd(RatMul(row[j], Int2Rat(v[j])), Dot(row, v, j + 1))

\* ndarray branch of Polynomial.evaluate
EvaluateArray(coeff, xs) ==
    LET V == Vander(xs, Len(coeff.v))
    IN  [i \in 1..Len(xs) |-> Dot(V[i], coeff.v, 1)]

\* Polynomial.evaluate(x): x is [kind, val]; any other kind of argument
\* falls through both isinstance tests and the method returns None
PolynomialEvaluate(coeff, x) ==
    IF x.kind = "number" THEN [kind |-> "number", val |-> EvaluateNumber(coeff, x.val)]
    ELSE IF x.kind = "ndarray" THEN [kind |-> "ndarray", val |-> EvaluateArray(coeff, x.val)]
    ELSE [kind |-> "None", val |-> <<>>]

\* Polynomial.__add__(self, other) for other a Polynomial, on the heap h of
\* coefficient arrays: coeff is the longer operand's own array (no copy), the
\* slice += writes into it, and Polynomial(*coeff) copies it into a new object
PolynomialAdd(h, self, other) ==
    LET t == IF PolynomialDegree(h[self]) > PolynomialDegree(h[other])
             THEN self ELSE other
        s == IF t = self /\ self # other THEN other ELSE self
    IN  IF ~CanCastInPlace(h[t], h[s])
        THEN [heap |-> h, exc |-> "UFuncTypeError", res |-> 0]
        ELSE LET h1 == [h EXCEPT ![t] = InplaceAddLow(h[t], h[s])]
             IN  [heap |-> Append(h1, PolynomialInit(h1[t])),
                  exc |-> "none", res |-> Len(h) + 1]

(* --------------------- the heap of Polynomial objects ------------------ *)
\* heap[i]   : the coeff array of Polynomial object i
\* origin[i] : the expression that created object i
\* last      : the last operation, its operands' coefficients before it, and
\*             what it returned
\* Two objects exist at the start: p built from integers, q from integers or
\* from floats (the case of two float arrays adds like that of two int arrays).
NoOrigin == [op |-> "init", self |-> 0, other |-> 0]
IdleLast == [op |-> "none", self |-> 0, other |-> 0,
             pre |-> [self |-> <<>>, other |-> <<>>],
             res |-> 0, ret |-> "none", exc |-> "none"]
IdleEv == [coeff |-> NpArray("int64", <<0>>), x |-> [kind |-> "none", val |-> <<>>],
           res |-> [kind |-> "none", val |-> <<>>]]

InitPoly ==
    /\ \E p \in {a \in CoeffArrays : a.dtype = "int64"}, q \in CoeffArrays :
          heap = <<PolynomialInit(p), PolynomialInit(q)>>
    /\ origin = <<NoOrigin, NoOrigin>>
    /\ last = IdleLast
    /\ ev = IdleEv
    /\ calls = <<>>
    /\ tree = <<>>

\* the operands' coefficient arrays, as a record kept by last
Operands(h, self, other) ==
    [self |-> h[self].v, other |-> IF other = 0 THEN <<>> ELSE h[other].v]

\* r = heap[self] + heap[other]; other = 0 stands for a node that is not a
\* Polynomial, for which the default __add__ builds Sum(self, other)
Add(self, other) ==
    /\ Len(heap) < MaxObjs
    /\ IF other = 0
       THEN /\ last' = [op |-> "add", self |-> self, other |-> other,
                        pre |-> Operands(heap, self, other),
                        res |-> 0, ret |-> "Sum", exc |-> "none"]
            /\ UNCHANGED <<heap, origin>>
       ELSE \E r \in {PolynomialAdd(heap, self, other)} :
                /\ heap' = r.heap
                /\ origin' = IF r.exc = "none"
                             THEN Append(origin, [op |-> "add", self |-> self, other |-> other])
                             ELSE origin
                /\ last' = [op |-> "add", self |-> self, other |-> other,
                            pre |-> Operands(heap, self, other),
                            res |-> r.res,
                            ret |-> IF r.exc = "none" THEN "Polynomial" ELSE "none",
                            exc |-> r.exc]
    /\ UNCHANGED <<ev, calls, tree>>

\* d = heap[self].derivative()
Derivative(self) ==
    /\ Len(heap) < MaxObjs
    /\ heap' = Append(heap, PolynomialDerivative(heap[self]))
    /\ origin' = Append(origin, [op |-> "derivative", self |-> self, other |-> 0])
    /\ last' = [op |-> "derivative", self |-> self, other |-> 0,
                pre |-> Operands(heap, self, 0),
                res |-> Len(heap) + 1, ret |-> "Polynomial", exc |-> "none"]
    /\ UNCHANGED <<ev, calls, tree>>

NextPoly ==
    \/ \E self \in 1..Len(heap), other \in 0..Len(heap) : Add(self, other)
    \/ \E self \in 1..Len(heap) : Derivative(self)

SpecPoly == InitPoly /\ [][NextPoly]_vars

(* ------------------- evaluation and differentiation -------------------- *)
\* the arguments given to evaluate: a number, a one-dimensional ndarray of
\* numbers, or a plain list (neither a Number nor an ndarray)
EvalArgs ==
    {[kind |-> "number", val |-> x] : x \in XVals}
    \cup {[kind |-> "ndarray", val |-> xs] : xs \in SeqsUpTo(XVals, MaxVec)}
    \cup {[kind |-> "list", val |-> <<x>>] : x \in {[n |-> 0, d |-> 1]}}

InitEval ==
    /\ \E p \in CoeffArrays : heap = <<PolynomialInit(p)>>
    /\ origin = <<NoOrigin>>
    /\ last = IdleLast
    /\ ev = IdleEv
    /\ calls = <<>>
    /\ tree = <<>>

\* y = heap[self].evaluate(x); evaluate changes nothing but ev, and one call
\* of it is followed in a behaviour
Evaluate(self, x) ==
    /\ ev = IdleEv
    /\ ev' = [coeff |-> heap[self], x |-> x, res |-> PolynomialEvaluate(heap[self], x)]
    /\ UNCHANGED <<heap, origin, last, calls, tree>>

NextEval ==
    \/ \E self \in 1..Len(heap), x \in EvalArgs : Evaluate(self, x)
    \/ \E self \in 1..Len(heap) : Derivative(self)

SpecEval == InitEval /\ [][NextEval]_vars

(* ------------------------ properties: Polynomial ----------------------- *)
\* the coefficient of x^k in the coefficient sequence v (highest degree first)
CoeffOf(v, k) == IF k < Len(v) THEN v[Len(v) - k] ELSE 0

MaxOf(a, b) == IF a > b THEN a ELSE b

\* sum_k c_k * x^k, from the definition of a polynomial
RECURSIVE PowerSum(_, _, _)
PowerSum(v, x, k) ==
    IF k < 0 THEN Int2Rat(0)
    ELSE RatAdd(RatMul(Int2Rat(CoeffOf(v, k)), RatPow(x, k)), PowerSum(v, x, k - 1))

\* C1: after p + q the coefficient sequences of p and of q are what they were
\* before the call (p and q may be the same object).
C1_OperandsUntouched ==
    (last.op = "add" /\ last.other # 0) =>
        /\ heap[last.self].v = last.pre.self
        /\ heap[last.other].v = last.pre.other

\* C6: p + q returns a Polynomial of degree max(deg p, deg q) whose coefficient
\* of x^k is the sum of the operands' coefficients of x^k at the time of the call.
C6_AddIsAlignedSum ==
    (last.op = "add" /\ last.other # 0) =>
        /\ last.exc = "none"
        /\ last.ret = "Polynomial"
        /\ last.res \in 1..Len(heap)
        /\ LET r == heap[last.res].v
               n == MaxOf(Len(last.pre.self), Len(last.pre.other))
           IN  /\ Len(r) = n
               /\ \A k \in 0..(n - 1) :
                     CoeffOf(r, k) = CoeffOf(last.pre.self, k) + CoeffOf(last.pre.other, k)

\* C10: r1 = p + q followed by r2 = q + p (or by p + q again) on the same
\* objects gives r1 and r2 the same coefficient sequence.
C10_AddCommutesOnObjects ==
    \A i \in 1..Len(heap), j \in 1..Len(heap) :
        ( /\ j = i + 1
          /\ origin[i].op = "add"
          /\ origin[j].op = "add"
          /\ \/ origin[j].self = origin[i].other /\ origin[j].other = origin[i].self
             \/ origin[j].self = origin[i].self /\ origin[j].other = origin[i].other )
        => heap[i].v = heap[j].v

\* C8: derivative() leaves self's coefficients unchanged and returns a new
\* Polynomial: <<0>> for degree 0, and for degree d >= 1 the degree d-1
\* polynomial whose coefficient of x^(k-1) is k * c_k, k = d..1.
C8_DerivativePowerRule ==
    last.op = "derivative" =>
        /\ heap[last.self].v = last.pre.self
        /\ last.res = Len(heap)
        /\ last.res # last.self
        /\ LET c == last.pre.self
               r == heap[last.res].v
               d == Len(c) - 1
           IN  IF d = 0 THEN r = <<0>>
               ELSE /\ Len(r) = d
                    /\ \A k \in 1..d : CoeffOf(r, k - 1) = k * CoeffOf(c, k)

\* a derivative of a polynomial of degree >= 2 with a non-zero x^2 and x^1
\* coefficient has been taken
C8_Witness ==
    /\ last.op = "derivative"
    /\ Len(last.pre.self) >= 3
    /\ CoeffOf(last.pre.self, 2) # 0
    /\ CoeffOf(last.pre.self, 1) # 0

Polynomial(coeff) == [kind |-> "Polynomial", coeff |-> PolynomialInit(coeff)]
Constant(c) == Polynomial(NpArray("int64", <<c>>))
Power(n) == [kind |-> "Power", n |-> n]
Log == [kind |-> "Log"]
Exponential == [kind |-> "Exponential"]
Sin == [kind |-> "Sin"]
Cos == [kind |-> "Cos"]
Symbolic(str) == [kind |-> "Symbolic", name |-> str]
Compose(f, g) == [kind |-> "Compose", f |-> f, g |-> g]
Sum(f, g) == [kind |-> "Sum", f |-> f, g |-> g]
Product(f, g) == [kind |-> "Product", f |-> f, g |-> g]

\* values that are not nodes: a Python float, a Python str
PyFloat(x) == [kind |-> "float", val |-> x]
\* the str built by fmt.format(*args), kept as the template and its arguments
PyStr(fmt, args) == [kind |-> "str", fmt |-> fmt, args |-> args]
\* an exception leaving a call
Raise(type, msg) == [kind |-> "raise", type |-> type, msg |-> msg]

NodeKinds == {"Polynomial", "Power", "Log", "Exponential", "Sin", "Cos",
              "Symbolic", "Compose", "Sum", "Product"}

\* isinstance(v, AbstractFunction)
IsAbstractFunction(v) == v.kind \in NodeKinds

\* self(x): Symbolic.__call__ formats a str whatever x is; every other node
\* uses AbstractFunction.__call__, which composes when x is a node, renders
\* when x is a str and evaluates otherwise
Call(self, x) ==
    IF self.kind = "Symbolic" THEN PyStr("{}({})", <<self.name, x>>)
    ELSE IF IsAbstractFunction(x) THEN Compose(self, x)
    ELSE IF x.kind = "str" THEN PyStr("__str__", <<self, x>>)
    ELSE [kind |-> "evaluate", self |-> self, x |-> x]

\* v.derivative(): the rule of v's class; a value that is not a node has no
\* attribute derivative; an exception raised below propagates
RECURSIVE NodeDerivative(_)
NodeDerivative(v) ==
    IF v.kind = "raise" THEN v
    ELSE IF ~IsAbstractFunction(v)
    THEN Raise("AttributeError", "object has no attribute 'derivative'")
    ELSE IF v.kind = "Polynomial" THEN Polynomial(PolynomialDerivative(v.coeff))
    ELSE IF v.kind = "Power" THEN Product(Constant(v.n), Power(v.n - 1))
    ELSE IF v.kind = "Log" THEN Power(-1)
    ELSE IF v.kind = "Exponential" THEN Exponential
    ELSE IF v.kind = "Sin" THEN Cos
    ELSE IF v.kind = "Cos" THEN Product(Constant(-1), Sin)
    ELSE IF v.kind = "Symbolic" THEN Symbolic(v.name \o "'")
    ELSE LET df == NodeDerivative(v.f)
             dg == NodeDerivative(v.g)
         IN  IF df.kind = "raise" THEN df
             ELSE IF v.kind = "Compose"
             THEN (IF dg.kind = "raise" THEN dg ELSE Product(Call(df, v.g), dg))
             ELSE IF dg.kind = "raise" THEN dg
             ELSE IF v.kind = "Sum" THEN Sum(df, dg)
             ELSE Sum(Product(df, v.g), Product(v.f, dg))

\* v.evaluate(x) at a number x, for the values the Newton iteration meets: a
\* Polynomial evaluates, a Symbolic inherits AbstractFunction.evaluate, and a
\* value that is not a node has no attribute evaluate
NodeEvaluate(v, x) ==
    CASE v.kind = "Polynomial" -> PyFloat(EvaluateNumber(v.coeff, x))
      [] v.kind = "Symbolic" -> Raise("NotImplementedError", "evaluate")
      [] ~IsAbstractFunction(v) ->
            Raise("AttributeError", "object has no attribute 'evaluate'")

(* ------------------------- Newton's method ----------------------------- *)
\* tol=1e-8, the default of both entry points
DefaultTol == [n |-> 1, d |-> 100000000]

RECURSIVE Pow2(_)
Pow2(e) == IF e = 0 THEN 1 ELSE 2 * Pow2(e - 1)

\* x is a dyadic rational small enough for binary64 arithmetic on it, its
\* powers and the polynomial values to be exact
Exact(x) ==
    /\ x.d \in {Pow2(e) : e \in 0..MaxExp}
    /\ Abs(x.n) <= 4 * Pow2(MaxExp)

\* the functions handed to the entry points: Polynomials with integer
\* coefficients, a Symbolic, and a float (not a node)
NewtonPolys ==
    {Polynomial(NpArray("int64", v)) : v \in SeqsUpTo({-1, 0, 1}, MaxLen) \ {<<>>}}
NewtonArgs == NewtonPolys \cup {Symbolic("f"), PyFloat(Int2Rat(3))}
X0Vals == {Int2Rat(-1), Int2Rat(0), Int2Rat(1), Int2Rat(2)}
TolVals == {DefaultTol, [n |-> 1, d |-> 4], Int2Rat(1), Int2Rat(2)}

NoExc == [kind |-> "none"]

\* the frame of one call: entry(f, x0, tol) as the caller made it, and the
\* locals of newton_root once it runs: its f (here g), its tol (here t), x, fx
NewCall(entry, f, x0, tol) ==
    [entry |-> entry, f |-> f, x0 |-> x0, tol |-> tol,
     pc |-> entry, g |-> f, t |-> tol, x |-> x0, fx |-> Int2Rat(0),
     exc |-> NoExc, evals |-> 0, derivs |-> 0, steps |-> 0]

\* the head of newton_root with the Symbolic test left out
NewtonRootCheckNodeOnly(f) ==
    IF ~IsAbstractFunction(f) THEN Raise("ValueError", "f must be an AbstractFunction")
    ELSE NoExc

\* the two isinstance tests at the head of newton_root
NewtonRootCheck(f) ==
    IF ~IsAbstractFunction(f) THEN Raise("ValueError", "f must be an AbstractFunction")
    ELSE IF f.kind = "Symbolic" THEN Raise("ValueError", "f must not be a Symbolic")
    ELSE NoExc

\* while(abs(fx) > tol)
NewtonContinues(fx, tol) == RatGT(RatAbs(fx), tol)

\* calls[1] is newton_extremum(f, x0, tol); calls[2] is newton_root(h, x0, tol)
\* for h either f itself or f.derivative()
InitNewton ==
    /\ \E f \in NewtonArgs, x0 \in X0Vals, tol \in TolVals :
         \E h \in (IF IsAbstractFunction(f) THEN {f, NodeDerivative(f)} ELSE {f}) :
            calls = <<NewCall("newton_extremum", f, x0, tol),
                      NewCall("newton_root", h, x0, tol)>>
    /\ heap = <<>>
    /\ origin = <<>>
    /\ last = IdleLast
    /\ ev = IdleEv
    /\ tree = <<>>

\* newton_extremum: f = f.derivative(); return newton_root(f, x0)
NewtonExtremum(i) ==
    /\ calls[i].pc = "newton_extremum"
    /\ LET c == calls[i]
           df == NodeDerivative(c.f)
       IN  calls' = [calls EXCEPT ![i] =
              IF df.kind = "raise"
              THEN [c EXCEPT !.pc = "raised", !.exc = df]
              ELSE [c EXCEPT !.pc = "newton_root", !.g = df, !.t = DefaultTol,
                             !.derivs = c.derivs + 1]]
    /\ UNCHANGED <<heap, origin, last, ev, tree>>

\* newton_root up to the loop: the argument checks, x = x0, fx = f.evaluate(x)
NewtonRootEnter(i) ==
    /\ calls[i].pc = "newton_root"
    /\ LET c == calls[i]
           chk == NewtonRootCheck(c.g)
           y == NodeEvaluate(c.g, c.x0)
       IN  calls' = [calls EXCEPT ![i] =
              IF chk.kind = "raise" THEN [c EXCEPT !.pc = "raised", !.exc = chk]
              ELSE IF y.kind = "raise"
              THEN [c EXCEPT !.pc = "raised", !.exc = y, !.evals = c.evals + 1]
              ELSE [c EXCEPT !.pc = "while", !.x = c.x0, !.fx = y.val,
                             !.evals = c.evals + 1]]
    /\ UNCHANGED <<heap, origin, last, ev, tree>>

\* one pass of the loop body:
\*   x = x - fx/f.derivative().evaluate(x); fx = f.evaluate(x)
\* A zero derivative makes fx/0 infinite (numpy warns, it does not raise) and
\* the call then returns inf or nan: position "nonfinite".
NewtonRootStep(i) ==
    /\ calls[i].pc = "while"
    /\ NewtonContinues(calls[i].fx, calls[i].t)
    /\ LET c == calls[i]
           dfx == NodeEvaluate(NodeDerivative(c.g), c.x).val
           x1 == RatSub(c.x, RatDiv(c.fx, dfx))
       IN  calls' = [calls EXCEPT ![i] =
              IF c.steps = MaxIter THEN [c EXCEPT !.pc = "cutoff"]
              ELSE IF dfx.n = 0
              THEN [c EXCEPT !.pc = "nonfinite", !.derivs = c.derivs + 1,
                             !.evals = c.evals + 2, !.steps = c.steps + 1]
              ELSE IF ~Exact(x1) THEN [c EXCEPT !.pc = "inexact"]
              ELSE [c EXCEPT !.x = x1, !.fx = NodeEvaluate(c.g, x1).val,
                             !.derivs = c.derivs + 1, !.evals = c.evals + 2,
                             !.steps = c.steps + 1]]
    /\ UNCHANGED <<heap, origin, last, ev, tree>>

\* the loop test fails: return x
NewtonRootReturn(i) ==
    /\ calls[i].pc = "while"
    /\ ~NewtonContinues(calls[i].fx, calls[i].t)
    /\ calls' = [calls EXCEPT ![i].pc = "returned"]
    /\ UNCHANGED <<heap, origin, last, ev, tree>>

NextNewton ==
    \/ \E i \in 1..Len(calls) : NewtonExtremum(i)
    \/ \E i \in 1..Len(calls) : NewtonRootEnter(i)
    \/ \E i \in 1..Len(calls) : NewtonRootStep(i)
    \/ \E i \in 1..Len(calls) : NewtonRootReturn(i)

SpecNewton == InitNewton /\ [][NextNewton]_vars

(* ----------------------- properties: Newton's method ------------------- *)
IsRejectedArg(f) == ~IsAbstractFunction(f) \/ f.kind = "Symbolic"

\* C2: newton_extremum(f, x0, tol) and newton_root(f.derivative(), x0, tol)
\* return the same x, for the tol the caller passed.
C2_ExtremumIsRootOfDerivative ==
    ( /\ calls[1].f.kind = "Polynomial"
      /\ calls[2].f = NodeDerivative(calls[1].f)
      /\ calls[1].pc = "returned"
      /\ calls[2].pc = "returned" )
    => calls[1].x = calls[2].x

\* C3: a value x returned by newton_root satisfies |f(x)| < tol strictly, for
\* the f and the tol newton_root was called with.
C3_ReturnedBelowTol ==
    \A i \in 1..Len(calls) :
        calls[i].pc = "returned" =>
            RatLT(RatAbs(NodeEvaluate(calls[i].g, calls[i].x).val), calls[i].t)

\* C4: newton_root called with f not a node, or f a Symbolic, raises ValueError
\* without having evaluated f or a derivative and without a Newton step.
C4_RootRejectsBeforeIterating ==
    IsRejectedArg(calls[2].f) =>
        /\ calls[2].pc \in {"newton_root", "raised"}
        /\ calls[2].evals = 0
        /\ calls[2].derivs = 0
        /\ calls[2].steps = 0
        /\ calls[2].pc = "raised" =>
              (calls[2].exc.kind = "raise" /\ calls[2].exc.type = "ValueError")

\* newton_root(Symbolic('f'), x0, tol) has raised
C4_Witness ==
    /\ calls[2].f = Symbolic("f")
    /\ calls[2].pc = "raised"
    /\ calls[2].exc.type = "ValueError"

\* C5: newton_extremum called with f not a node, or f a Symbolic, fails with
\* the ValueError of newton_root, before any iteration.
C5_ExtremumRejectsLikeRoot ==
    IsRejectedArg(calls[1].f) =>
        /\ calls[1].pc \in {"newton_extremum", "newton_root", "raised"}
        /\ calls[1].evals = 0
        /\ calls[1].steps = 0
        /\ calls[1].pc = "raised" =>
              (calls[1].exc.kind = "raise" /\ calls[1].exc.type = "ValueError")

(* --------------------------- building trees ---------------------------- *)
None == [kind |-> "None"]

TreeLeaves ==
    {Polynomial(a) : a \in {b \in CoeffArrays : b.dtype = "int64"}}
    \cup {Power(2), Power(-1), Log, Exponential, Sin, Cos, Symbolic("f"), Symbolic("g")}

TreeNodes ==
    TreeLeaves
    \cup {Sum(a, b) : a \in {Sin, Symbolic("f"), Power(2)}, b \in {Sin, Symbolic("f"), Power(2)}}
    \cup {Product(a, b) : a \in {Sin, Symbolic("f"), Power(2)}, b \in {Sin, Symbolic("f"), Power(2)}}
    \cup {Compose(a, b) : a \in {Sin, Symbolic("f"), Power(2)}, b \in {Sin, Symbolic("f"), Power(2)}}

\* tree.f, tree.g : two nodes; tree.c : what was built from them;
\* tree.d : tree.c.derivative()
InitTree ==
    /\ \E f \in TreeNodes, g \in TreeNodes : tree = [f |-> f, g |-> g, c |-> None, d |-> None]
    /\ heap = <<>>
    /\ origin = <<>>
    /\ last = IdleLast
    /\ ev = IdleEv
    /\ calls = <<>>

\* c = Compose(f, g)
BuildCompose ==
    /\ tree.c = None
    /\ tree' = [tree EXCEPT !.c = Compose(tree.f, tree.g)]
    /\ UNCHANGED <<heap, origin, last, ev, calls>>

\* c = f(g)
CallNode ==
    /\ tree.c = None
    /\ tree' = [tree EXCEPT !.c = Call(tree.f, tree.g)]
    /\ UNCHANGED <<heap, origin, last, ev, calls>>

\* d = c.derivative()
Differentiate ==
    /\ tree.c # None
    /\ tree.d = None
    /\ tree' = [tree EXCEPT !.d = NodeDerivative(tree.c)]
    /\ UNCHANGED <<heap, origin, last, ev, calls>>

NextTree == BuildCompose \/ CallNode \/ Differentiate

SpecTree == InitTree /\ [][NextTree]_vars

(* ------------------------- properties: chain rule ---------------------- *)
\* C9: for every Compose(f, g), f of any node kind, derivative() returns
\* Product(Compose(f.derivative(), g), g.derivative()).
C9_ChainRuleStructure ==
    (tree.c.kind = "Compose" /\ tree.d # None) =>
        /\ tree.d.kind = "Product"
        /\ tree.d.f = Compose(NodeDerivative(tree.c.f), tree.c.g)
        /\ tree.d.g = NodeDerivative(tree.c.g)

====
